---- MODULE Spec2Model ----
(***************************************************************************)
(* Model of the DataTables plugin "string-locale-mapped-int"               *)
(* (src/js/DT_localesort.js): the per-table rank cache, its builder and    *)
(* the invalidate / recalc operations.                                     *)
(*                                                                         *)
(* Strings are sequences of UTF-16 code units.  JavaScript arrays are      *)
(* indexed from 0; here a sequence position p stands for the JavaScript    *)
(* index p - 1, while the rank VALUES stored in the cache are the          *)
(* JavaScript values (0 .. n-1).  A sparse JavaScript array (the cache) is *)
(* a function whose domain is the set of assigned indexes.                 *)
(***************************************************************************)
EXTENDS Integers, Sequences, FiniteSets, TLC

VARIABLES
  rows,                \* host table data: sequence of rows, a row is a tuple of cells
  aoColumns,           \* host column settings: bSortable, sSortDataType per column
  oInit,               \* settings.oInit.stringLocaleMapped (the plugin options)
  stringLocaleMapped,  \* settings.stringLocaleMapped (the plugin's container)
  engine,              \* the host engine's Array.prototype.sort implementation
  intl,                \* the host engine's Intl global, read by the revision of
                       \* the plugin that sorts with Intl.Collator
  result,              \* outcome of the last operation, as its caller sees it
  stable               \* observer: per column, the array the gets returned since
                       \* the last invalidate / recalc / data change, and
                       \* whether more than one get returned it

vars == <<rows, aoColumns, oInit, stringLocaleMapped, engine, intl, result, stable>>

-----------------------------------------------------------------------------
(* Bounds of the model *)

MaxRows == 2      \* rows of a table in the cache lifecycle specification
MaxColLen == 4    \* rows of a column in the builder specification

-----------------------------------------------------------------------------
(* Strings *)

\* "", "B", "b", "ab", "{", "ä" (U+00E4), "Ä" (U+00C4)
Values == { <<>>, <<66>>, <<98>>, <<97, 98>>, <<123>>, <<228>>, <<196>> }

\* the README's column: Zeder, Arzt, Ärzte, Ast, Baum
Zeder == <<90, 101, 100, 101, 114>>
Arzt  == <<65, 114, 122, 116>>
Aerzte == <<196, 114, 122, 116, 101>>
Ast   == <<65, 115, 116>>
Baum  == <<66, 97, 117, 109>>
ReadmeColumn == << Zeder, Arzt, Aerzte, Ast, Baum >>

\* (0xFF80 & elem.charCodeAt(j)) != 0 for a 16 bit code unit: bits 7..15
HighBits(c) == (c \div 128) % 512

onlyAscii(elem) == \A j \in 1..Len(elem) : HighBits(elem[j]) = 0

\* String.prototype.toLowerCase on Basic Latin and Latin-1 letters
LowerChar(c) ==
  IF c \in 65..90 \/ (c \in 192..222 /\ c # 215) THEN c + 32 ELSE c

toLowerCase(elem) == [j \in 1..Len(elem) |-> LowerChar(elem[j])]

\* String.prototype.toLocaleLowerCase in a locale without special casing rules
toLocaleLowerCase(elem) == [j \in 1..Len(elem) |-> LowerChar(elem[j])]

\* the "data" field computed by the map callback
NormalizedValue(elem, caseInsensitive) ==
  IF caseInsensitive
    THEN (IF onlyAscii(elem) THEN toLowerCase(elem) ELSE toLocaleLowerCase(elem))
    ELSE elem

\* three-way lexicographic comparison of two sequences of integers
RECURSIVE LexCompare(_, _)
LexCompare(x, y) ==
  IF Len(x) = 0 /\ Len(y) = 0 THEN 0
  ELSE IF Len(x) = 0 THEN -1
  ELSE IF Len(y) = 0 THEN 1
  ELSE IF x[1] < y[1] THEN -1
  ELSE IF x[1] > y[1] THEN 1
  ELSE LexCompare(Tail(x), Tail(y))

\* x > y on JavaScript strings: code unit order
StringGreater(x, y) == LexCompare(x, y) > 0

\* Collation weights of a code unit (CLDR root / German standard collation):
\* punctuation sorts before letters, letters by base letter, then accent,
\* then case (lower case first).
IsLetter(c) == c \in 65..90 \/ c \in 97..122 \/ c \in 192..255
BaseLetter(c) ==
  LET l == LowerChar(c) IN IF l \in 224..230 THEN 97 ELSE l
PrimaryWeight(c) == IF IsLetter(c) THEN 1000 + BaseLetter(c) ELSE c
SecondaryWeight(c) == IF c \in 192..255 THEN 1 ELSE 0
TertiaryWeight(c) == IF LowerChar(c) # c THEN 1 ELSE 0

\* a comparison by code units in place of the collation
localeCompare_codeUnits(x, y) == LexCompare(x, y)

\* String.prototype.localeCompare
localeCompare(x, y) ==
  LET p == LexCompare([j \in 1..Len(x) |-> PrimaryWeight(x[j])],
                      [j \in 1..Len(y) |-> PrimaryWeight(y[j])])
      s == LexCompare([j \in 1..Len(x) |-> SecondaryWeight(x[j])],
                      [j \in 1..Len(y) |-> SecondaryWeight(y[j])])
      t == LexCompare([j \in 1..Len(x) |-> TertiaryWeight(x[j])],
                      [j \in 1..Len(y) |-> TertiaryWeight(y[j])])
  IN IF p # 0 THEN p ELSE IF s # 0 THEN s ELSE t

-----------------------------------------------------------------------------
(* The rank builder *)

\* the comparator handed to tmpMap.sort
compareFn(x, y) ==
  IF x.isAscii /\ y.isAscii
    THEN (IF StringGreater(x.data, y.data) THEN 1 ELSE -1)
    ELSE localeCompare(x.data, y.data)

\* Array.prototype.sort as an insertion sort (engines sorting short arrays
\* by insertion): the element moves left past every entry comparing > 0
RECURSIVE InsertFromRight(_, _, _)
InsertFromRight(a, element, j) ==
  IF j = 0 \/ compareFn(a[j], element) <= 0
    THEN SubSeq(a, 1, j) \o <<element>> \o SubSeq(a, j + 1, Len(a))
    ELSE InsertFromRight(a, element, j - 1)

RECURSIVE InsertionSort(_)
InsertionSort(a) ==
  IF Len(a) <= 1 THEN a
  ELSE LET front == InsertionSort(SubSeq(a, 1, Len(a) - 1))
       IN InsertFromRight(front, a[Len(a)], Len(front))

\* Array.prototype.sort as a stable merge sort
RECURSIVE Merge(_, _)
Merge(l, r) ==
  IF Len(l) = 0 THEN r
  ELSE IF Len(r) = 0 THEN l
  ELSE IF compareFn(l[1], r[1]) <= 0
    THEN <<l[1]>> \o Merge(Tail(l), r)
    ELSE <<r[1]>> \o Merge(l, Tail(r))

RECURSIVE MergeSort(_)
MergeSort(a) ==
  IF Len(a) <= 1 THEN a
  ELSE LET m == Len(a) \div 2
       IN Merge(MergeSort(SubSeq(a, 1, m)), MergeSort(SubSeq(a, m + 1, Len(a))))

Engines == {"insertion", "merge"}

\* tmpMap.sort(function (x, y) {...})
sort(a, eng) == IF eng = "insertion" THEN InsertionSort(a) ELSE MergeSort(a)

\* an unassigned position of new Array(n)
Hole == -1

\* colData.map(function (elem, i) {...}); index is the sequence position
tmpMapOf(colData, caseInsensitive) ==
  [i \in 1..Len(colData) |->
     [index |-> i,
      data |-> NormalizedValue(colData[i], caseInsensitive),
      isAscii |-> onlyAscii(colData[i])]]

\* the for loop; i is the JavaScript index, tmpMap[i] is sorted[i + 1]
RECURSIVE AssignRanks(_, _, _, _)
AssignRanks(sorted, colToOrderPos, i, idxForSameContent) ==
  IF i >= Len(sorted) THEN colToOrderPos
  ELSE IF sorted[i + 1].data = sorted[i].data
    THEN AssignRanks(sorted,
                     [colToOrderPos EXCEPT ![sorted[i + 1].index] = idxForSameContent],
                     i + 1, idxForSameContent)
    ELSE AssignRanks(sorted,
                     [colToOrderPos EXCEPT ![sorted[i + 1].index] = i],
                     i + 1, i)

\* a builder without colToOrderPos[tmpMap[0].index] = 0: the row sorted first
\* keeps the unassigned slot of new Array(n)
buildStringLocaleMappedIntColumn_firstUnassigned(caseInsensitive, colData, eng) ==
  LET tmpMap == sort(tmpMapOf(colData, caseInsensitive), eng)
      fresh == [i \in 1..Len(tmpMap) |-> Hole]
  IN IF Len(tmpMap) = 0
       THEN [threw |-> TRUE, entry |-> fresh]
       ELSE [threw |-> FALSE, entry |-> AssignRanks(tmpMap, fresh, 1, 0)]

\* buildStringLocaleMappedIntColumn: the value left in cache[col], whether the
\* call threw (tmpMap[0] is undefined for an empty column, after cache[col]
\* has been assigned), and the returned array
buildStringLocaleMappedIntColumn(caseInsensitive, colData, eng) ==
  LET tmpMap == sort(tmpMapOf(colData, caseInsensitive), eng)
      fresh == [i \in 1..Len(tmpMap) |-> Hole]
  IN IF Len(tmpMap) = 0
       THEN [threw |-> TRUE, entry |-> fresh]
       ELSE [threw |-> FALSE,
             entry |-> AssignRanks(tmpMap,
                                   [fresh EXCEPT ![tmpMap[1].index] = 0], 1, 0)]

-----------------------------------------------------------------------------
(* The plugin: container, sort-key provider, invalidate, recalc *)

ProviderName == "string-locale-mapped-int"

\* settings.stringLocaleMapped before init has run
NoContainer == [defined |-> FALSE, caseInsensitive |-> FALSE, cache |-> <<>>]

\* init(settings): a fresh container, caseInsensitive unless the option is
\* exactly false
init(myOptions) ==
  [defined |-> TRUE,
   caseInsensitive |->
     (IF myOptions.defined /\ myOptions.caseInsensitive = "false"
        THEN FALSE ELSE TRUE),
   cache |-> <<>>]

\* a getSortColumnData that never takes the cached array
cacheMiss_always(cache, colIdx) == TRUE

\* ! settings.stringLocaleMapped.cache[colIdx]
cacheMiss(cache, colIdx) == colIdx \notin DOMAIN cache

\* cache[col] = ... on the sparse array
cacheStore(cache, col, entry) == (col :> entry) @@ cache

\* api().column(colIdx, {order: 'index'}).data()
columnData(colIdx) == [i \in 1..Len(rows) |-> rows[i][colIdx]]

\* a recalc that does not look at bSortable
recalcSelects_unsortableToo(col) == col.sSortDataType = ProviderName

\* the columns recalc rebuilds
recalcSelects(col) == col.bSortable /\ col.sSortDataType = ProviderName

NoResult == [op |-> "none", col |-> 0, outcome |-> "ok", built |-> FALSE, ret |-> <<>>]

\* the observer's record of a get of colIdx that returned ret
observe(colIdx, ret) ==
  (colIdx :> [ret |-> ret, again |-> colIdx \in DOMAIN stable]) @@ stable

\* the "string-locale-mapped-int" order function: getSortColumnData.  The host
\* calls it for a column whose orderDataType names the provider.
getSortColumnData(colIdx) ==
  /\ colIdx \in DOMAIN aoColumns
  /\ aoColumns[colIdx].sSortDataType = ProviderName
  /\ \E accessorFails \in BOOLEAN :
       LET slm == IF stringLocaleMapped.defined
                    THEN stringLocaleMapped ELSE init(oInit)
       IN IF cacheMiss(slm.cache, colIdx)
            THEN IF accessorFails
                   THEN /\ stringLocaleMapped' = slm
                        /\ result' = [op |-> "get", col |-> colIdx,
                                      outcome |-> "accessorError",
                                      built |-> FALSE, ret |-> <<>>]
                        /\ stable' = stable
                   ELSE LET b == buildStringLocaleMappedIntColumn(
                                   slm.caseInsensitive, columnData(colIdx), engine)
                        IN /\ stringLocaleMapped' =
                                [slm EXCEPT !.cache = cacheStore(slm.cache, colIdx, b.entry)]
                           /\ result' = [op |-> "get", col |-> colIdx,
                                         outcome |-> IF b.threw THEN "TypeError" ELSE "ok",
                                         built |-> TRUE,
                                         ret |-> IF b.threw THEN <<>> ELSE b.entry]
                           /\ stable' = IF b.threw THEN stable
                                        ELSE observe(colIdx, b.entry)
            ELSE /\ ~accessorFails
                 /\ stringLocaleMapped' = slm
                 /\ result' = [op |-> "get", col |-> colIdx, outcome |-> "ok",
                               built |-> FALSE, ret |-> slm.cache[colIdx]]
                 /\ stable' = observe(colIdx, slm.cache[colIdx])
  /\ UNCHANGED <<rows, aoColumns, oInit, engine, intl>>

\* invalidateStringLocaleSortCache(): context.stringLocaleMapped.cache = []
\* (a TypeError when the container does not exist yet)
invalidateStringLocaleSortCache ==
  /\ IF stringLocaleMapped.defined
       THEN /\ stringLocaleMapped' = [stringLocaleMapped EXCEPT !.cache = <<>>]
            /\ result' = [op |-> "invalidate", col |-> 0, outcome |-> "ok",
                          built |-> FALSE, ret |-> <<>>]
       ELSE /\ stringLocaleMapped' = stringLocaleMapped
            /\ result' = [op |-> "invalidate", col |-> 0, outcome |-> "TypeError",
                          built |-> FALSE, ret |-> <<>>]
  /\ stable' = <<>>
  /\ UNCHANGED <<rows, aoColumns, oInit, engine, intl>>

\* context.aoColumns.forEach(...) of recalc, from column colIdx on: the cache
\* and the outcome when the loop ends or an exception leaves it
RECURSIVE recalcForEach(_, _, _, _)
recalcForEach(cache, colIdx, failAt, caseInsensitive) ==
  IF colIdx > Len(aoColumns) THEN [cache |-> cache, outcome |-> "ok"]
  ELSE IF ~recalcSelects(aoColumns[colIdx])
    THEN recalcForEach(cache, colIdx + 1, failAt, caseInsensitive)
  ELSE IF failAt = colIdx THEN [cache |-> cache, outcome |-> "accessorError"]
  ELSE LET b == buildStringLocaleMappedIntColumn(
                  caseInsensitive, columnData(colIdx), engine)
       IN IF b.threw
            THEN [cache |-> cacheStore(cache, colIdx, b.entry), outcome |-> "TypeError"]
            ELSE recalcForEach(cacheStore(cache, colIdx, b.entry), colIdx + 1,
                               failAt, caseInsensitive)

\* recalcStringLocaleSortCache(); failAt is the column whose data accessor
\* fails (0: none)
recalcStringLocaleSortCache ==
  /\ \E failAt \in 0..Len(aoColumns) :
       IF stringLocaleMapped.defined
         THEN LET r == recalcForEach(<<>>, 1, failAt, stringLocaleMapped.caseInsensitive)
              IN /\ stringLocaleMapped' = [stringLocaleMapped EXCEPT !.cache = r.cache]
                 /\ result' = [op |-> "recalc", col |-> 0, outcome |-> r.outcome,
                               built |-> (DOMAIN r.cache # {}), ret |-> <<>>]
         ELSE /\ failAt = 0
              /\ stringLocaleMapped' = stringLocaleMapped
              /\ result' = [op |-> "recalc", col |-> 0, outcome |-> "TypeError",
                            built |-> FALSE, ret |-> <<>>]
  /\ stable' = <<>>
  /\ UNCHANGED <<rows, aoColumns, oInit, engine, intl>>

-----------------------------------------------------------------------------
(* The host: table data *)

\* the rows a load can add, cells of the two columns: ("b", "ä"), ("B", "b")
LoadableRows == { << <<98>>, <<228>> >>, << <<66>>, <<98>> >> }

DataChanged == [op |-> "data", col |-> 0, outcome |-> "ok", built |-> FALSE, ret |-> <<>>]

\* api().rows.add(...): one more row
rowsAdd ==
  /\ Len(rows) < MaxRows
  /\ \E r \in LoadableRows : rows' = Append(rows, r)
  /\ result' = DataChanged
  /\ stable' = <<>>
  /\ UNCHANGED <<aoColumns, oInit, stringLocaleMapped, engine, intl>>

\* api().clear()
clear ==
  /\ Len(rows) > 0
  /\ rows' = <<>>
  /\ result' = DataChanged
  /\ stable' = <<>>
  /\ UNCHANGED <<aoColumns, oInit, stringLocaleMapped, engine, intl>>

-----------------------------------------------------------------------------
(* Specifications *)

OptionSets ==
  { [defined |-> FALSE, caseInsensitive |-> "undefined"],
    [defined |-> TRUE, caseInsensitive |-> "true"],
    [defined |-> TRUE, caseInsensitive |-> "false"] }

ProviderColumn == [bSortable |-> TRUE, sSortDataType |-> ProviderName]
UnsortableProviderColumn == [bSortable |-> FALSE, sSortDataType |-> ProviderName]
PlainColumn == [bSortable |-> TRUE, sSortDataType |-> "std"]

TableLayouts ==
  { <<ProviderColumn, ProviderColumn>>,
    <<ProviderColumn, PlainColumn>>,
    <<ProviderColumn, UnsortableProviderColumn>> }

\* a table after construction, before any sort on a provider column
Init ==
  /\ rows = <<>>
  /\ aoColumns \in TableLayouts
  /\ oInit \in OptionSets
  /\ stringLocaleMapped = NoContainer
  /\ engine \in Engines
  /\ intl = "collator"
  /\ result = NoResult
  /\ stable = <<>>

Next ==
  \/ \E colIdx \in 1..Len(aoColumns) : getSortColumnData(colIdx)
  \/ invalidateStringLocaleSortCache
  \/ recalcStringLocaleSortCache
  \/ rowsAdd
  \/ clear

Spec == Init /\ [][Next]_vars

\* The builder on its own: a one-column table holding any column over Values
\* of up to MaxColLen rows, or the README's column in any row order.
BoundedColumns == UNION { [1..n -> Values] : n \in 0..MaxColLen }
ReadmeColumns ==
  { [i \in 1..Len(ReadmeColumn) |-> ReadmeColumn[p[i]]] :
      p \in Permutations(1..Len(ReadmeColumn)) }

InitBuild ==
  /\ \E colData \in BoundedColumns \cup ReadmeColumns :
       rows = [i \in 1..Len(colData) |-> <<colData[i]>>]
  /\ aoColumns = <<ProviderColumn>>
  /\ oInit \in OptionSets
  /\ stringLocaleMapped = NoContainer
  /\ engine \in Engines
  /\ intl = "collator"
  /\ result = NoResult
  /\ stable = <<>>

NextBuild == getSortColumnData(1)

SpecBuild == InitBuild /\ [][NextBuild]_vars

-----------------------------------------------------------------------------
(* Properties of the builder, checked under SpecBuild *)

cache == stringLocaleMapped.cache
caseInsensitive == stringLocaleMapped.caseInsensitive

\* the last operation was a get that built the column and returned
GetBuilt == result.op = "get" /\ result.outcome = "ok" /\ result.built

\* ranks compare as the collator compares the normalized values
OrderConsistent(ranks, colData, ci) ==
  /\ Len(ranks) = Len(colData)
  /\ \A i, j \in 1..Len(colData) :
       (ranks[i] <= ranks[j]) <=>
         (localeCompare(NormalizedValue(colData[i], ci),
                        NormalizedValue(colData[j], ci)) <= 0)

\* C1: order-consistency: for every column, either setting of caseInsensitive
\* and every pair of rows i, j, the built ranks satisfy rank[i] <= rank[j]
\* exactly when the collator orders normalized(values[i]) at or before
\* normalized(values[j]).
C1_OrderConsistency ==
  GetBuilt => OrderConsistent(result.ret, columnData(result.col), caseInsensitive)

\* C2: tie-consistency: rows whose normalized values are equal have equal
\* ranks, wherever they sit and whatever else the column holds.
C2_TieConsistency ==
  GetBuilt =>
    \A i, j \in 1..Len(rows) :
      NormalizedValue(columnData(result.col)[i], caseInsensitive)
        = NormalizedValue(columnData(result.col)[j], caseInsensitive)
      => result.ret[i] = result.ret[j]

SameUpToCase(x, y) ==
  [k \in 1..Len(x) |-> LowerChar(x[k])] = [k \in 1..Len(y) |-> LowerChar(y[k])]

\* C9: case sensitivity toggle: with caseInsensitive = true values that differ
\* only in letter case have the same rank, and a column of only such values
\* has rank 0 in every row; with caseInsensitive = false two values that
\* differ only in case have different ranks.
C9_CaseToggle ==
  GetBuilt =>
    LET colData == columnData(result.col)
        n == Len(colData)
    IN IF caseInsensitive
         THEN /\ \A i, j \in 1..n :
                   SameUpToCase(colData[i], colData[j]) => result.ret[i] = result.ret[j]
              /\ (\A i, j \in 1..n : SameUpToCase(colData[i], colData[j]))
                   => \A i \in 1..n : result.ret[i] = 0
         ELSE \A i, j \in 1..n :
                (colData[i] # colData[j] /\ SameUpToCase(colData[i], colData[j]))
                  => result.ret[i] # result.ret[j]

\* C10: for the column Zeder, Arzt, Ärzte, Ast, Baum built case-insensitively
\* the rank array indexed by original row is exactly 4, 0, 1, 2, 3.
C10_ReadmeColumn ==
  (GetBuilt /\ caseInsensitive /\ columnData(1) = ReadmeColumn)
    => result.ret = <<4, 0, 1, 2, 3>>

C10_Witness ==
  /\ GetBuilt /\ caseInsensitive
  /\ columnData(1) = ReadmeColumn
  /\ cache[1] = <<4, 0, 1, 2, 3>>

-----------------------------------------------------------------------------
(* Properties of the cache lifecycle, checked under Spec *)

Columns == 1..Len(aoColumns)

\* C3: idempotence: a get of a column that follows another get of it, with no
\* invalidate, recalc or data change between the two, returns the same stored
\* array and does not run the builder.
C3_Idempotence ==
  [][\A c \in Columns :
       (c \in DOMAIN stable /\ getSortColumnData(c))
         => /\ result'.outcome = "ok"
            /\ ~result'.built
            /\ result'.ret = stable[c].ret
            /\ cache'[c] = stable[c].ret]_vars

\* a second get of a non-empty column returned what the first one returned
C3_Witness ==
  /\ result.op = "get" /\ result.outcome = "ok" /\ ~result.built
  /\ result.col \in DOMAIN stable
  /\ stable[result.col].again
  /\ result.ret = stable[result.col].ret
  /\ Len(result.ret) = MaxRows

\* C4: after invalidate every entry is Empty, and the next get of a column
\* rebuilds its ranks from the data as it is then: the returned ranks are
\* order-consistent with the current values.
C4_InvalidationEffect ==
  [][/\ (invalidateStringLocaleSortCache /\ result'.outcome = "ok") => cache' = <<>>
     /\ \A c \in Columns :
          ( /\ result.op = "invalidate" /\ result.outcome = "ok"
            /\ getSortColumnData(c)
            /\ result'.outcome # "accessorError" )
          => /\ result'.outcome = "ok"
             /\ result'.built
             /\ OrderConsistent(result'.ret, columnData(c), caseInsensitive')]_vars

\* C5: a get fails only when the data accessor fails: on an Empty entry it
\* builds, leaves the entry Ready and returns an array with one rank per row,
\* for every number of rows including zero.
C5_GetNeverFails ==
  (result.op = "get" /\ result.outcome # "accessorError")
    => /\ result.outcome = "ok"
       /\ result.col \in DOMAIN cache
       /\ result.built => (/\ Len(result.ret) = Len(rows)
                           /\ cache[result.col] = result.ret)

\* C6: when the data accessor fails during get or recalc, every column's
\* entry is left as it was before the call.
C6_FailureLeavesCache ==
  [][result'.outcome = "accessorError" => cache' = cache]_vars

\* C7: invalidate succeeds in every state, also before init has created the
\* container; afterwards every entry is Empty and the configuration is as
\* before.
C7_InvalidateSucceeds ==
  [][invalidateStringLocaleSortCache
       => /\ result'.outcome = "ok"
          /\ stringLocaleMapped'.defined
          /\ cache' = <<>>
          /\ caseInsensitive' = caseInsensitive]_vars

\* C8: after recalc returns, every sortable column using the provider is
\* Ready with the ranks of the current data, every other column is Empty, and
\* a following get of a rebuilt column returns the stored array without
\* building.
C8_RecalcEffect ==
  [][/\ (recalcStringLocaleSortCache /\ result'.outcome = "ok")
          => \A c \in Columns :
               IF aoColumns[c].bSortable /\ aoColumns[c].sSortDataType = ProviderName
                 THEN /\ c \in DOMAIN cache'
                      /\ cache'[c] = buildStringLocaleMappedIntColumn(
                                       caseInsensitive, columnData(c), engine).entry
                      /\ Len(cache'[c]) = Len(rows)
                      /\ \A i \in 1..Len(rows) : cache'[c][i] \in 0..(Len(rows) - 1)
                 ELSE c \notin DOMAIN cache'
     /\ \A c \in Columns :
          ( /\ result.op = "recalc" /\ result.outcome = "ok"
            /\ aoColumns[c].bSortable
            /\ getSortColumnData(c) )
          => /\ result'.outcome = "ok"
             /\ ~result'.built
             /\ result'.ret = cache[c]
             /\ cache' = cache]_vars

\* a recalc returned having rebuilt one column and left another Empty
C8_Witness ==
  /\ result.op = "recalc" /\ result.outcome = "ok"
  /\ Len(rows) = MaxRows
  /\ 1 \in DOMAIN cache /\ Len(cache[1]) = MaxRows
  /\ 2 \notin DOMAIN cache

-----------------------------------------------------------------------------
(* The revision of the plugin that sorts with Intl.Collator                *)
(* (src/unnamed/part_001)                                                  *)

\* the Intl global: with Intl.Collator, without Intl.Collator, not declared
IntlStates == {"collator", "noCollator", "undeclared"}

\* init(settings) of the revision: caseInsensitive only when the option is
\* exactly true; the locale of the options or of the navigator ("de" here,
\* the locale whose collation localeCompare models)
init_001(myOptions) ==
  [defined |-> TRUE,
   caseInsensitive |-> (myOptions.defined /\ myOptions.caseInsensitive = "true"),
   locale |-> "de",
   cache |-> <<>>]

\* colData.map(function (elem, i) {...}) of the revision
tmpMapOf_001(colData, ci) ==
  [i \in 1..Len(colData) |->
     [index |-> i,
      data |-> IF ci THEN toLowerCase(colData[i]) ELSE colData[i],
      isAscii |-> onlyAscii(colData[i])]]

\* What a comparator call evaluates to: <<v>> for the number v, << >> for
\* undefined.
\* coll.compare: Intl.Collator(locale).compare, or the fallback
\* function(x,y) { x.localeCompare(y); }, whose body returns nothing
collCompare(intlState, x, y) ==
  IF intlState = "collator" THEN <<localeCompare(x, y)>> ELSE << >>

\* the comparator handed to tmpMap.sort by the revision
compareFn_001(intlState, x, y) ==
  IF x.isAscii /\ y.isAscii
    THEN <<(IF LexCompare(x.data, y.data) < 0 THEN -1
            ELSE IF StringGreater(x.data, y.data) THEN 1 ELSE 0)>>
    ELSE collCompare(intlState, x.data, y.data)

\* how Array.prototype.sort reads a comparator's value: undefined is NaN
\* and counts as +0
SortCompare(v) == IF v = << >> THEN 0 ELSE v[1]

RECURSIVE InsertFromRight_001(_, _, _, _)
InsertFromRight_001(intlState, a, element, j) ==
  IF j = 0 \/ SortCompare(compareFn_001(intlState, a[j], element)) <= 0
    THEN SubSeq(a, 1, j) \o <<element>> \o SubSeq(a, j + 1, Len(a))
    ELSE InsertFromRight_001(intlState, a, element, j - 1)

RECURSIVE InsertionSort_001(_, _)
InsertionSort_001(intlState, a) ==
  IF Len(a) <= 1 THEN a
  ELSE LET front == InsertionSort_001(intlState, SubSeq(a, 1, Len(a) - 1))
       IN InsertFromRight_001(intlState, front, a[Len(a)], Len(front))

RECURSIVE Merge_001(_, _, _)
Merge_001(intlState, l, r) ==
  IF Len(l) = 0 THEN r
  ELSE IF Len(r) = 0 THEN l
  ELSE IF SortCompare(compareFn_001(intlState, l[1], r[1])) <= 0
    THEN <<l[1]>> \o Merge_001(intlState, Tail(l), r)
    ELSE <<r[1]>> \o Merge_001(intlState, l, Tail(r))

RECURSIVE MergeSort_001(_, _)
MergeSort_001(intlState, a) ==
  IF Len(a) <= 1 THEN a
  ELSE LET m == Len(a) \div 2
       IN Merge_001(intlState, MergeSort_001(intlState, SubSeq(a, 1, m)),
                    MergeSort_001(intlState, SubSeq(a, m + 1, Len(a))))

\* tmpMap.sort(function (x, y) {...}) of the revision
sort_001(intlState, a, eng) ==
  IF eng = "insertion" THEN InsertionSort_001(intlState, a)
                       ELSE MergeSort_001(intlState, a)

\* buildStringLocaleMappedIntColumn of the revision: what it throws ("none",
\* a ReferenceError for the undeclared Intl before the cache is touched, a
\* TypeError for an empty column after it), whether cache[col] was assigned,
\* and the array
buildStringLocaleMappedIntColumn_001(ci, colData, eng, intlState) ==
  IF intlState = "undeclared"
    THEN [threw |-> "ReferenceError", stored |-> FALSE, entry |-> << >>]
    ELSE LET tmpMap == sort_001(intlState, tmpMapOf_001(colData, ci), eng)
             fresh == [i \in 1..Len(tmpMap) |-> Hole]
         IN IF Len(tmpMap) = 0
              THEN [threw |-> "TypeError", stored |-> TRUE, entry |-> fresh]
              ELSE [threw |-> "none", stored |-> TRUE,
                    entry |-> AssignRanks(tmpMap,
                                          [fresh EXCEPT ![tmpMap[1].index] = 0], 1, 0)]

\* getSortColumnData of the revision
getSortColumnData_001(colIdx) ==
  /\ colIdx \in DOMAIN aoColumns
  /\ aoColumns[colIdx].sSortDataType = ProviderName
  /\ \E accessorFails \in BOOLEAN :
       LET slm == IF stringLocaleMapped.defined
                    THEN stringLocaleMapped ELSE init_001(oInit)
       IN IF cacheMiss(slm.cache, colIdx)
            THEN IF accessorFails
                   THEN /\ stringLocaleMapped' = slm
                        /\ result' = [op |-> "get", col |-> colIdx,
                                      outcome |-> "accessorError",
                                      built |-> FALSE, ret |-> <<>>]
                        /\ stable' = stable
                   ELSE LET b == buildStringLocaleMappedIntColumn_001(
                                   slm.caseInsensitive, columnData(colIdx), engine, intl)
                        IN /\ stringLocaleMapped' =
                                IF b.stored
                                  THEN [slm EXCEPT !.cache =
                                          cacheStore(slm.cache, colIdx, b.entry)]
                                  ELSE slm
                           /\ result' = [op |-> "get", col |-> colIdx,
                                         outcome |-> IF b.threw = "none" THEN "ok"
                                                     ELSE b.threw,
                                         built |-> TRUE,
                                         ret |-> IF b.threw = "none" THEN b.entry
                                                 ELSE <<>>]
                           /\ stable' = IF b.threw = "none"
                                          THEN observe(colIdx, b.entry) ELSE stable
            ELSE /\ ~accessorFails
                 /\ stringLocaleMapped' = slm
                 /\ result' = [op |-> "get", col |-> colIdx, outcome |-> "ok",
                               built |-> FALSE, ret |-> slm.cache[colIdx]]
                 /\ stable' = observe(colIdx, slm.cache[colIdx])
  /\ UNCHANGED <<rows, aoColumns, oInit, engine, intl>>

\* The builder of the revision on its own, in every state of the Intl global
InitCollator ==
  /\ \E colData \in BoundedColumns :
       rows = [i \in 1..Len(colData) |-> <<colData[i]>>]
  /\ aoColumns = <<ProviderColumn>>
  /\ oInit \in OptionSets
  /\ stringLocaleMapped = NoContainer
  /\ engine \in Engines
  /\ intl \in IntlStates
  /\ result = NoResult
  /\ stable = <<>>

NextCollator == getSortColumnData_001(1)

SpecCollator == InitCollator /\ [][NextCollator]_vars

\* C11: collator fallback: without Intl.Collator building a non-empty column
\* does not fail, the comparator gives every pair that is not both ASCII-only
\* the three-way result of the plain lexicographic comparison, and the ranks
\* are order-consistent with that order.
C11_CollatorFallback ==
  ( /\ intl # "collator"
    /\ Len(rows) > 0
    /\ result.op = "get" /\ result.built )
  => LET tmpMap == tmpMapOf_001(columnData(1), caseInsensitive)
         n == Len(tmpMap)
     IN /\ result.outcome = "ok"
        /\ \A i, j \in 1..n :
             ~(tmpMap[i].isAscii /\ tmpMap[j].isAscii)
               => compareFn_001(intl, tmpMap[i], tmpMap[j])
                    = <<LexCompare(tmpMap[i].data, tmpMap[j].data)>>
        /\ Len(result.ret) = n
        /\ \A i, j \in 1..n :
             (result.ret[i] <= result.ret[j])
               <=> (LexCompare(tmpMap[i].data, tmpMap[j].data) <= 0)

-----------------------------------------------------------------------------
(* Rank values and cache entries *)

\* C12: rank values: in a built column of n >= 1 rows every rank is an
\* integer in 0 .. n-1 and equals the number of rows whose normalized value
\* sorts strictly before the row's own, so the smallest value has rank 0.
C12_RankValues ==
  (GetBuilt /\ Len(rows) >= 1)
    => LET colData == columnData(result.col)
           n == Len(colData)
           Before(i) ==
             { j \in 1..n :
                 localeCompare(NormalizedValue(colData[j], caseInsensitive),
                               NormalizedValue(colData[i], caseInsensitive)) < 0 }
       IN /\ Len(result.ret) = n
          /\ \A i \in 1..n :
               /\ result.ret[i] \in 0..(n - 1)
               /\ result.ret[i] = Cardinality(Before(i))
          /\ \E i \in 1..n : result.ret[i] = 0

\* a RankArray: every row position holds an assigned integer rank
CompleteRankArray(entry) ==
  \A i \in 1..Len(entry) : entry[i] # Hole /\ entry[i] \in 0..(Len(entry) - 1)

\* the columns whose entry the last operation built (an entry built before a
\* failure included); the rows have not changed since
BuiltByLast ==
  IF result.op = "recalc" THEN DOMAIN cache
  ELSE IF result.op = "get" /\ result.built THEN {result.col}
  ELSE {}

\* C13: between operations every cache entry is absent or a complete rank
\* array with no unassigned position, also after an operation that failed,
\* and an entry just built has one rank per row of the data it was built from.
C13_CompleteEntries ==
  /\ \A c \in DOMAIN cache : CompleteRankArray(cache[c])
  /\ \A c \in BuiltByLast : c \in DOMAIN cache /\ Len(cache[c]) = Len(rows)

\* a recalc that failed at the second column after rebuilding the first
C13_Witness ==
  /\ result.op = "recalc" /\ result.outcome = "accessorError"
  /\ Len(rows) >= 2
  /\ 1 \in DOMAIN cache /\ Len(cache[1]) = Len(rows)
  /\ 2 \notin DOMAIN cache

====
